---------------------------- MODULE Spec2Model ----------------------------
(***************************************************************************)
(* A model of the trolley price scraper: the extraction heuristics of      *)
(* scraper.py (TrolleyScraper) and the cached serving layer of app.py.     *)
(*                                                                         *)
(* Python str values are TLC strings (Len, \o and SubSeq work on them).    *)
(* The pound sign U+00A3 is written "$" so that the module stays ASCII.    *)
(***************************************************************************)
EXTENDS Integers, Sequences, FiniteSets, TLC

(***************************************************************************)
(* Text primitives (Python str methods).                                   *)
(***************************************************************************)
Pound == "$"

Digits == {"0", "1", "2", "3", "4", "5", "6", "7", "8", "9"}

UpperStr == "ABCDEFGHIJKLMNOPQRSTUVWXYZ"

LowerStr == "abcdefghijklmnopqrstuvwxyz"

Ch(s, i) == IF i >= 1 /\ i <= Len(s) THEN SubSeq(s, i, i) ELSE ""

UpperLetters == {Ch(UpperStr, i) : i \in 1..Len(UpperStr)}

LowerLetters == {Ch(LowerStr, i) : i \in 1..Len(LowerStr)}

Letters == UpperLetters \cup LowerLetters

WhiteSpace == {" ", "\t", "\n"}

LowerOf == [c \in UpperLetters |->
              Ch(LowerStr, CHOOSE i \in 1..Len(UpperStr) : Ch(UpperStr, i) = c)]

UpperOf == [c \in LowerLetters |->
              Ch(UpperStr, CHOOSE i \in 1..Len(LowerStr) : Ch(LowerStr, i) = c)]

LowerCh(c) == IF c \in UpperLetters THEN LowerOf[c] ELSE c

UpperCh(c) == IF c \in LowerLetters THEN UpperOf[c] ELSE c

\* s[i:] with a 1-based i
From(s, i) == IF i > Len(s) THEN "" ELSE SubSeq(s, i, Len(s))

\* s[:i-1] with a 1-based i
Before(s, i) == IF i <= 1 THEN "" ELSE SubSeq(s, 1, i - 1)

RECURSIVE Lower(_)
Lower(s) ==
    IF s = "" THEN "" ELSE LowerCh(Ch(s, 1)) \o Lower(From(s, 2))

\* str.title(): a letter after a non-letter is upper-cased, any other lower-cased
RECURSIVE TitleFrom(_, _)
TitleFrom(s, afterLetter) ==
    IF s = "" THEN ""
    ELSE LET c == Ch(s, 1)
         IN  (IF afterLetter THEN LowerCh(c) ELSE UpperCh(c))
                 \o TitleFrom(From(s, 2), c \in Letters)

Title(s) == TitleFrom(s, FALSE)

RECURSIVE LStrip(_)
LStrip(s) ==
    IF s # "" /\ Ch(s, 1) \in WhiteSpace THEN LStrip(From(s, 2)) ELSE s

RECURSIVE RStrip(_)
RStrip(s) ==
    IF s # "" /\ Ch(s, Len(s)) \in WhiteSpace THEN RStrip(Before(s, Len(s))) ELSE s

Strip(s) == RStrip(LStrip(s))

StartsWith(s, p) == Len(p) <= Len(s) /\ SubSeq(s, 1, Len(p)) = p

\* str.find, 1-based: the first index where sub occurs in s, 0 when it does not
Find(s, sub) ==
    LET at == {i \in 1..(Len(s) - Len(sub) + 1) : SubSeq(s, i, i + Len(sub) - 1) = sub}
    IN  IF at = {} THEN 0 ELSE CHOOSE i \in at : \A j \in at : i <= j

\* the Python test  sub in s
In(sub, s) == sub = "" \/ Find(s, sub) # 0

(***************************************************************************)
(* Regular expressions (module re).  A pattern is a sequence of items, an  *)
(* item a character set with a quantifier "1", "?", "*" or "+".  Matching  *)
(* is leftmost, greedy and backtracking, as in re.  A pattern compiled     *)
(* with re.IGNORECASE is matched against the lower-cased text.             *)
(***************************************************************************)
One(cs) == <<[cs |-> cs, q |-> "1"]>>

Opt(cs) == <<[cs |-> cs, q |-> "?"]>>

Star(cs) == <<[cs |-> cs, q |-> "*"]>>

Plus(cs) == <<[cs |-> cs, q |-> "+"]>>

Lit(str) == [i \in 1..Len(str) |-> [cs |-> {Ch(str, i)}, q |-> "1"]]

\* the length of the longest run of characters of cs in s from position i
RECURSIVE Run(_, _, _)
Run(cs, s, i) == IF Ch(s, i) \in cs THEN 1 + Run(cs, s, i + 1) ELSE 0

\* The end (exclusive) of the match of items k.. of p at position i of s; 0: none
RECURSIVE MatchFrom(_, _, _, _)
RECURSIVE TryRep(_, _, _, _, _, _)
MatchFrom(p, k, s, i) ==
    IF k > Len(p) THEN i
    ELSE LET n == Run(p[k].cs, s, i)
         IN  CASE p[k].q = "1" -> IF n >= 1 THEN MatchFrom(p, k + 1, s, i + 1) ELSE 0
               [] p[k].q = "?" -> TryRep(p, k, s, i, IF n >= 1 THEN 1 ELSE 0, 0)
               [] p[k].q = "*" -> TryRep(p, k, s, i, n, 0)
               [] p[k].q = "+" -> TryRep(p, k, s, i, n, 1)

TryRep(p, k, s, i, n, least) ==
    IF n < least THEN 0
    ELSE LET r == MatchFrom(p, k + 1, s, i + n)
         IN  IF r # 0 THEN r ELSE TryRep(p, k, s, i, n - 1, least)

NoMatch == ""

\* re.match(p, s).group(), NoMatch for None (no pattern here matches empty text)
re_match(p, s) ==
    LET e == MatchFrom(p, 1, s, 1) IN IF e = 0 THEN NoMatch ELSE Before(s, e)

\* re.search(p, s).group(), NoMatch for None
re_search(p, s) ==
    LET at == {i \in 1..Len(s) : MatchFrom(p, 1, s, i) # 0}
    IN  IF at = {} THEN NoMatch
        ELSE LET i == CHOOSE a \in at : \A b \in at : a <= b
             IN  SubSeq(s, i, MatchFrom(p, 1, s, i) - 1)

\* the first pattern of the sequence ps (alternatives in priority order)
\* that matches at the start of s: the length of its match, 0 for None
RECURSIVE FirstAlt(_, _, _)
FirstAlt(ps, k, s) ==
    IF k > Len(ps) THEN 0
    ELSE LET e == MatchFrom(ps[k], 1, s, 1)
         IN  IF e # 0 THEN e - 1 ELSE FirstAlt(ps, k + 1, s)

(***************************************************************************)
(* The parsed document (BeautifulSoup).  A node is a record: tag, class    *)
(* (the list of class tokens), text (its own text), href and alt with a    *)
(* flag saying whether the attribute is present.  A container adds attrs   *)
(* (its string-valued attributes, in document order, as <<name, value>>),  *)
(* children (its descendants in document order) and the places where       *)
(* processing it raises an exception.                                      *)
(***************************************************************************)
Node(tag, class, text, hasHref, href, hasAlt, alt) ==
    [tag |-> tag, class |-> class, text |-> text, hasHref |-> hasHref,
     href |-> href, hasAlt |-> hasAlt, alt |-> alt]

Anchor(text, href) == Node("a", <<>>, text, TRUE, href, FALSE, "")

Span(cls, text) == Node("span", <<cls>>, text, FALSE, "", FALSE, "")

Img(alt) == Node("img", <<>>, "", FALSE, "", TRUE, alt)

TextNode(text) == Node("#text", <<>>, text, FALSE, "", FALSE, "")

\* the class attribute as one string (what [class*=...] is matched against)
RECURSIVE JoinClass(_)
JoinClass(cl) ==
    IF cl = <<>> THEN ""
    ELSE IF Len(cl) = 1 THEN cl[1] ELSE cl[1] \o " " \o JoinClass(Tail(cl))

\* CSS selectors of the forms used: [tag]".cls", [tag]"[class*=\"v\"]", [tag]"[data-id]"
SelectorMatches(selector, tag, class, hasDataId) ==
    LET typed == StartsWith(selector, "div")
        body  == IF typed THEN From(selector, 4) ELSE selector
    IN  /\ typed => tag = "div"
        /\ CASE StartsWith(body, ".") ->
                    \E k \in 1..Len(class) : class[k] = From(body, 2)
             [] StartsWith(body, "[class*=\"") ->
                    /\ class # <<>>
                    /\ In(SubSeq(body, 10, Len(body) - 2), JoinClass(class))
             [] body = "[data-id]" -> hasDataId
             [] OTHER -> FALSE

\* container.select_one(selector): the index of the first matching descendant, 0 for None
select_one(c, selector) ==
    LET at == {k \in 1..Len(c.children) :
                  SelectorMatches(selector, c.children[k].tag, c.children[k].class, FALSE)}
    IN  IF at = {} THEN 0 ELSE CHOOSE k \in at : \A j \in at : k <= j

\* container.find('a', href=True): index of the first anchor with an href, 0 for None
find_link(c) ==
    LET at == {k \in 1..Len(c.children) :
                  c.children[k].tag = "a" /\ c.children[k].hasHref}
    IN  IF at = {} THEN 0 ELSE CHOOSE k \in at : \A j \in at : k <= j

\* container.find('img')
find_img(c) ==
    LET at == {k \in 1..Len(c.children) : c.children[k].tag = "img"}
    IN  IF at = {} THEN 0 ELSE CHOOSE k \in at : \A j \in at : k <= j

\* container.get_text(): the text of every descendant, concatenated
RECURSIVE ConcatText(_, _)
ConcatText(ch, k) ==
    IF k > Len(ch) THEN "" ELSE ch[k].text \o ConcatText(ch, k + 1)

get_text(c) == ConcatText(c.children, 1)

\* element.get_text(strip=True) of an element holding one text node
get_text_strip(el) == Strip(el.text)

(***************************************************************************)
(* TrolleyScraper.__init__                                                 *)
(***************************************************************************)
base_url == "https://www.trolley.co.uk"

\* store_mappings, in insertion (= iteration) order
store_mappings ==
    << <<"tesco", "Tesco">>, <<"asda", "ASDA">>, <<"sainsburys", "Sainsbury's">>,
       <<"morrisons", "Morrisons">>, <<"waitrose", "Waitrose">>,
       <<"iceland", "Iceland">>, <<"aldi", "Aldi">>, <<"lidl", "Lidl">>,
       <<"coop", "Co-op">>, <<"marks", "M&S">>, <<"ocado", "Ocado">> >>

\* for store_key, store_name in store_mappings.items(): if store_key in text:
\* return store_name   -- None when no key is in the text
None == "<None>"

RECURSIVE MappedStore(_, _)
MappedStore(text, k) ==
    IF k > Len(store_mappings) THEN None
    ELSE IF In(store_mappings[k][1], text) THEN store_mappings[k][2]
         ELSE MappedStore(text, k + 1)

\* urllib.parse.urljoin(base_url, href) for a base without a path
urljoin(base, href) ==
    CASE href = "" -> base
      [] StartsWith(href, "http://") \/ StartsWith(href, "https://") -> href
      [] StartsWith(href, "//") -> "https:" \o href
      [] StartsWith(href, "/") -> base \o href
      [] StartsWith(href, "?") \/ StartsWith(href, "#") -> base \o href
      [] OTHER -> base \o "/" \o href

(***************************************************************************)
(* TrolleyScraper._normalize_store_name and _extract_store_name            *)
(***************************************************************************)
_normalize_store_name(store_name) ==
    LET mapped == MappedStore(Strip(Lower(store_name)), 1)
    IN  IF mapped # None THEN mapped ELSE Title(store_name)

\* store_patterns, compiled with re.IGNORECASE
store_patterns ==
    << Lit("sainsbury") \o Opt({"'"}) \o Lit("s"),
       Lit("tesco"),
       Lit("asda"),
       Lit("waitrose"),
       Lit("morrisons"),
       Lit("iceland"),
       Lit("aldi"),
       Lit("lidl"),
       Lit("co") \o Opt({"-"}) \o Lit("op"),
       Lit("mark") \o Opt({"s"}) \o Star(WhiteSpace) \o Opt({"&"})
           \o Star(WhiteSpace) \o Lit("spencer"),
       Lit("m&s") >>

\* the if/elif chain on store_found; None when no branch returns
NormalizeFound(store_found) ==
    CASE In("sainsbury", store_found) -> "Sainsbury's"
      [] In("tesco", store_found) -> "Tesco"
      [] In("asda", store_found) -> "ASDA"
      [] In("waitrose", store_found) -> "Waitrose"
      [] In("morrisons", store_found) -> "Morrisons"
      [] In("iceland", store_found) -> "Iceland"
      [] In("aldi", store_found) -> "Aldi"
      [] In("lidl", store_found) -> "Lidl"
      [] In("co", store_found) /\ In("op", store_found) -> "Co-op"
      [] In("marks", store_found) \/ In("m&s", store_found) -> "Marks & Spencer"
      [] OTHER -> None

\* Method 1: the store patterns, in order, searched in the container's text
RECURSIVE Method1From(_, _)
Method1From(text_content, k) ==
    IF k > Len(store_patterns) THEN None
    ELSE LET match == re_search(store_patterns[k], Lower(text_content))
         IN  IF match # NoMatch /\ NormalizeFound(match) # None
                 THEN NormalizeFound(match)
                 ELSE Method1From(text_content, k + 1)

Method1(c) == Method1From(get_text(c), 1)

store_selectors ==
    <<".store", ".retailer", ".shop", ".vendor",
      ".store-name", ".retailer-name", ".shop-name">>

\* Method 2: the first store selector whose element has text
RECURSIVE Method2From(_, _)
Method2From(c, k) ==
    IF k > Len(store_selectors) THEN None
    ELSE LET store_element == select_one(c, store_selectors[k])
             store_name == IF store_element = 0 THEN ""
                           ELSE get_text_strip(c.children[store_element])
         IN  IF store_name # "" THEN _normalize_store_name(store_name)
                                ELSE Method2From(c, k + 1)

Method2(c) == Method2From(c, 1)

\* Method 3: a catalog key in the anchor's href
Method3(c) ==
    LET link_element == find_link(c)
    IN  IF link_element # 0 /\ c.children[link_element].href # ""
            THEN MappedStore(Lower(c.children[link_element].href), 1)
            ELSE None

\* Method 4: a catalog key in the first image's alt text
Method4(c) ==
    LET img_element == find_img(c)
    IN  IF img_element # 0
            THEN MappedStore(Lower(IF c.children[img_element].hasAlt
                                       THEN c.children[img_element].alt ELSE ""), 1)
            ELSE None

\* Method 5: a catalog key in a string-valued attribute of the container
RECURSIVE Method5From(_, _)
Method5From(c, k) ==
    IF k > Len(c.attrs) THEN None
    ELSE LET found == MappedStore(Lower(c.attrs[k][2]), 1)
         IN  IF found # None THEN found ELSE Method5From(c, k + 1)

Method5(c) == Method5From(c, 1)

\* Method 6: a catalog key anywhere in the lower-cased text
Method6(c) == MappedStore(Lower(get_text(c)), 1)

Method(k, c) ==
    CASE k = 1 -> Method1(c)
      [] k = 2 -> Method2(c)
      [] k = 3 -> Method3(c)
      [] k = 4 -> Method4(c)
      [] k = 5 -> Method5(c)
      [] k = 6 -> Method6(c)

FallbackEmpty == ""

Fallback == "Trolley.co.uk"

\* The cascade from method k on.  c.storeRaiseAt = k: method k raises, which
\* the except clause turns into the fallback.
RECURSIVE StoreFrom(_, _)
StoreFrom(c, k) ==
    IF k > 6 THEN Fallback
    ELSE IF c.storeRaiseAt = k THEN Fallback
    ELSE IF Method(k, c) # None THEN Method(k, c)
    ELSE StoreFrom(c, k + 1)

_extract_store_name(c) == StoreFrom(c, 1)

(***************************************************************************)
(* TrolleyScraper._extract_product_info, step by step.  Each step takes    *)
(* the running name buffer and returns the field with the buffer left.     *)
(***************************************************************************)
PriceNotAvailable == "Price not available"

\* r'£\d+\.\d+'
price_pattern == Lit(Pound) \o Plus(Digits) \o Lit(".") \o Plus(Digits)

\* lines 162-167: the price in the name, and the name cut before it
PriceInName(text) ==
    LET price_text == re_search(price_pattern, text)
    IN  IF price_text # NoMatch
            THEN [price |-> price_text,
                  name |-> Strip(Before(text, Find(text, price_text)))]
            ELSE [price |-> PriceNotAvailable, name |-> text]

price_selectors == <<"[class*=\"price\"]", ".price", ".cost">>

\* lines 170-179: the first price selector whose first element holds a price
RECURSIVE PriceFromElements(_, _)
PriceFromElements(c, k) ==
    IF k > Len(price_selectors) THEN PriceNotAvailable
    ELSE LET price_element == select_one(c, price_selectors[k])
             found == IF price_element = 0 THEN NoMatch
                      ELSE re_search(price_pattern,
                                     get_text_strip(c.children[price_element]))
         IN  IF found # NoMatch THEN found ELSE PriceFromElements(c, k + 1)

\* r'^(\d+(?:\.\d+)?(?:g|kg|ml|l|oz|lb))' with re.IGNORECASE: the optional
\* fraction is tried before its absence, the units in their written order
size_units == <<"g", "kg", "ml", "l", "oz", "lb">>

size_patterns ==
    [k \in 1..(2 * Len(size_units)) |->
        IF k <= Len(size_units)
            THEN Plus(Digits) \o Lit(".") \o Plus(Digits) \o Lit(size_units[k])
            ELSE Plus(Digits) \o Lit(size_units[k - Len(size_units)])]

\* lines 182-186
SizeInName(text) ==
    LET n == FirstAlt(size_patterns, 1, Lower(text))
    IN  IF n > 0
            THEN [size |-> SubSeq(text, 1, n), name |-> Strip(From(text, n + 1))]
            ELSE [size |-> "", name |-> text]

known_brands ==
    <<"hovis", "warburtons", "kingsmill", "mother pride", "allinson", "brennans">>

\* brand_patterns, each compiled with re.IGNORECASE (so [A-Z] and [a-z] are
\* both any letter); the alternatives of a pattern in priority order
brand_patterns ==
    << [k \in 1..Len(known_brands) |-> Lit(known_brands[k])],
       << One(LowerLetters) \o Plus(LowerLetters) \o Plus(WhiteSpace)
              \o One(LowerLetters) \o Plus(LowerLetters),
          One(LowerLetters) \o Plus(LowerLetters) >> >>

\* lines 189-201: the first brand pattern that matches at the start
RECURSIVE BrandFrom(_, _)
BrandFrom(text, k) ==
    IF k > Len(brand_patterns) THEN [brand |-> "", name |-> text]
    ELSE LET n == FirstAlt(brand_patterns[k], 1, Lower(text))
         IN  IF n > 0
                 THEN [brand |-> SubSeq(text, 1, n), name |-> Strip(From(text, n + 1))]
                 ELSE BrandFrom(text, k + 1)

BrandInName(text) == BrandFrom(text, 1)

\* re.sub(r'\s+', ' ', s)
RECURSIVE CollapseSpaces(_)
CollapseSpaces(s) ==
    IF s = "" THEN ""
    ELSE IF Ch(s, 1) \in WhiteSpace
             THEN " " \o CollapseSpaces(From(s, 1 + Run(WhiteSpace, s, 1)))
             ELSE Ch(s, 1) \o CollapseSpaces(From(s, 2))

\* re.sub(r'\d+$', '', s)
RECURSIVE DropTrailingDigits(_)
DropTrailingDigits(s) ==
    IF s # "" /\ Ch(s, Len(s)) \in Digits
        THEN DropTrailingDigits(Before(s, Len(s))) ELSE s

\* lines 204-206
CleanName(text) ==
    LET a == Strip(From(text, 1 + Run(Digits, text, 1)))
        b == Strip(DropTrailingDigits(a))
    IN  Strip(CollapseSpaces(b))

NoProduct == [none |-> TRUE]

\* c.raises = "info": a statement of the try block raises, and the except
\* clause returns None
_extract_product_info(c) ==
    LET link_element == find_link(c)
        name0 == get_text_strip(c.children[link_element])
        p == PriceInName(name0)
        price_text == IF p.price = PriceNotAvailable
                          THEN PriceFromElements(c, 1) ELSE p.price
        s == SizeInName(p.name)
        b == BrandInName(s.name)
    IN  IF c.raises = "info" \/ link_element = 0 THEN NoProduct
        ELSE IF name0 = "" THEN NoProduct
        ELSE [name  |-> CleanName(b.name),
              price |-> price_text,
              brand |-> b.brand,
              size  |-> s.size,
              store |-> _extract_store_name(c),
              url   |-> urljoin(base_url, c.children[link_element].href)]

(***************************************************************************)
(* Bounds and inputs of the search.                                        *)
(***************************************************************************)
MaxResults == 2

MaxContainers == 4

\* max_results as a caller may pass it: search_products does not check it
ResultInputs == (0 - 1)..MaxResults

NoFilter == None

FilterInputs == {NoFilter, "tesco", "marks"}

Container(attrs, children, raises, storeRaiseAt) ==
    [attrs |-> attrs, children |-> children, raises |-> raises,
     storeRaiseAt |-> storeRaiseAt]

Plain(children) == Container(<<>>, children, "none", 0)

\* The containers a result page is made of: a retailer named by each of the
\* six methods, no retailer at all, no anchor, a name that is all brand and
\* price, and containers whose processing raises.
Containers ==
    { Plain(<<Anchor("800gHovisSeed Bread269$1.95$0.24 per 100g", "/p/1"),
              TextNode("Tesco")>>),
      Plain(<<Anchor("2lCoca Cola Zero$2.50", "/p/2"),
              TextNode("Sainsbury's, cheaper than TESCO")>>),
      Plain(<<Anchor("2lCoca Cola Zero$2.50", "/p/2"), Span("store", " Ocado ")>>),
      Plain(<<Anchor("2lCoca Cola Zero$2.50", "/p/2"), Span("retailer", "spar")>>),
      Plain(<<Anchor("2lCoca Cola Zero$2.50", "/go/tesco/2")>>),
      Plain(<<Img("Tesco logo"), Anchor("2lCoca Cola Zero$2.50", "/p/2")>>),
      Container(<< <<"data-id", "77">>, <<"data-store", "TESCO">> >>,
                <<Anchor("2lCoca Cola Zero$2.50", "/p/2")>>, "none", 0),
      Plain(<<Anchor("2lCoca Cola Zero$2.50", "/p/2"), TextNode("by marks")>>),
      Plain(<<Anchor("2lCoca Cola Zero$2.50", "/p/2"), TextNode("M&S")>>),
      Plain(<<Anchor("2lCoca Cola Zero$2.50", "/p/2")>>),
      Plain(<<TextNode("Sponsored"), Span("price", "$3.00")>>),
      Plain(<<Anchor("Bread$1.00", "/p/3"), TextNode("Tesco")>>),
      Container(<<>>, <<Anchor("2lCoca Cola Zero$2.50", "/p/2"), TextNode("Tesco")>>,
                "info", 0),
      Container(<<>>, <<Anchor("2lCoca Cola Zero$2.50", "/p/2"), TextNode("Tesco")>>,
                "filter", 0),
      Container(<<>>, <<Anchor("2lCoca Cola Zero$2.50", "/p/2"), TextNode("Tesco")>>,
                "none", 1) }

(***************************************************************************)
(* State.                                                                  *)
(*   search_products / _extract_products: max_results, store_filter,       *)
(*   ncontainers (len(product_containers)), idx (containers iterated       *)
(*   over), products, pc; nskipped and nfailed count the containers the    *)
(*   filter skipped and those that gave no record, outcome is what the     *)
(*   last iteration did.                                                   *)
(***************************************************************************)
VARIABLES max_results, store_filter, ncontainers, idx, products, pc,
          nskipped, nempty, nfailed, outcome

searchVars == <<max_results, store_filter, ncontainers, idx, products, pc,
                nskipped, nempty, nfailed, outcome>>

\* The container locator (_extract_products, lines 95-114): soup is the
\* document's elements in document order, sel the index of the selector under
\* the loop variable, tried the selectors evaluated so far,
\* product_containers the indices of the selected elements, lpc the position.
VARIABLES soup, sel, tried, product_containers, lpc

locateVars == <<soup, sel, tried, product_containers, lpc>>

\* _extract_product_info on one container: the locals of the method and its
\* position epc; result is the value returned.
VARIABLES container, name, price, size, brand, store, url, epc

extractVars == <<container, name, price, size, brand, store, url, epc>>

\* app.py: cache is the module's dict (key -> [data, timestamp]), now the
\* value of time.time(), th the request being handled by each worker thread
\* (its position, its locals and the response it sent), nreq the number of
\* requests received.  ret and lookup describe the last call of
\* get_cached_result: what it returned, and the key it was given, whether
\* the key was in the cache and with which timestamp; last names the last step.
VARIABLES cache, now, th, nreq, ret, lookup, last

appVars == <<cache, now, th, nreq, ret, lookup, last>>

vars == <<searchVars, locateVars, extractVars, appVars>>

AppIdle ==
    /\ cache = <<>> /\ now = 0 /\ th = <<>> /\ nreq = 0
    /\ ret = [none |-> TRUE] /\ lookup = [key |-> <<"", 0>>, found |-> FALSE, ts |-> 0]
    /\ last = "idle"

SearchIdle ==
    /\ max_results = 0 /\ store_filter = NoFilter /\ ncontainers = 0 /\ idx = 0
    /\ products = <<>> /\ pc = "idle" /\ nskipped = 0 /\ nempty = 0 /\ nfailed = 0
    /\ outcome = "none"

LocateIdle ==
    /\ soup = <<>> /\ sel = 0 /\ tried = {} /\ product_containers = <<>>
    /\ lpc = "idle"

ExtractIdle ==
    /\ container = Plain(<<>>) /\ name = "" /\ price = "" /\ size = ""
    /\ brand = "" /\ store = "" /\ url = "" /\ epc = "idle"

\* _extract_product_info of every container of the page
InfoOf == [c \in Containers |-> _extract_product_info(c)]

\* len(lst[:k]) for a list of n items
SliceLen(n, k) == IF k >= 0 THEN (IF n < k THEN n ELSE k)
                            ELSE (IF n + k > 0 THEN n + k ELSE 0)

\* the number of containers the for loop of line 116 iterates over
Cap == SliceLen(ncontainers, max_results * 3)

FilterRejectsAnyKey(filter, product) ==
    LET product_store == Lower(product.store)
    IN  /\ filter # NoFilter /\ filter # ""
        /\ ~In(Lower(filter), product_store)
        /\ ~\E k \in 1..Len(store_mappings) :
               In(Lower(filter), store_mappings[k][1])

\* lines 121-128: the filter is given and the record's store does not match it
FilterRejects(filter, product) ==
    LET product_store == Lower(product.store)
    IN  /\ filter # NoFilter /\ filter # ""
        /\ ~In(Lower(filter), product_store)
        /\ ~\E k \in 1..Len(store_mappings) :
               /\ Lower(store_mappings[k][2]) = product_store
               /\ In(Lower(filter), store_mappings[k][1])

AfterAppendNoBreak(n) == "loop"

\* lines 133-134: where the loop goes with n records collected
AfterAppend(n) == IF n >= max_results THEN "done" ELSE "loop"

OnErrorAbort == "raised"

\* lines 136-138: where the loop goes when an iteration raised
OnError == "loop"

SearchInit ==
    /\ max_results \in ResultInputs
    /\ store_filter \in FilterInputs
    /\ ncontainers = 0
    /\ idx = 0
    /\ products = <<>>
    /\ pc = "fetch"
    /\ nskipped = 0
    /\ nempty = 0
    /\ nfailed = 0
    /\ outcome = "none"
    /\ LocateIdle /\ ExtractIdle /\ AppIdle

\* search_products, lines 66-77: the page is fetched and parsed, and the
\* selectors locate n containers; none located: lines 112-114 return [].
\* A failed request raises (lines 82-87).
Fetch ==
    /\ pc = "fetch"
    /\ \/ \E n \in 1..MaxContainers : ncontainers' = n /\ pc' = "loop"
       \/ ncontainers' = 0 /\ pc' = "done"
       \/ ncontainers' = 0 /\ pc' = "raised"
    /\ UNCHANGED <<max_results, store_filter, idx, products, nskipped, nempty,
                   nfailed, outcome>>
    /\ UNCHANGED <<locateVars, extractVars, appVars>>

\* One iteration of the for loop, lines 116-138, on container c.
IterateOn(c) ==
    LET product == InfoOf[c]
        filtering == store_filter # NoFilter /\ store_filter # ""
    IN  /\ pc = "loop"
        /\ idx < Cap
        /\ idx' = idx + 1
        /\ \/ \* _extract_product_info raised inside and returned None
              /\ product = NoProduct /\ c.raises = "info"
              /\ products' = products /\ pc' = OnError
              /\ nfailed' = nfailed + 1
              /\ UNCHANGED <<nskipped, nempty>>
              /\ outcome' = "error"
           \/ \* _extract_product_info returned None: no anchor, no text
              /\ product = NoProduct /\ c.raises # "info"
              /\ products' = products /\ pc' = "loop"
              /\ nempty' = nempty + 1
              /\ UNCHANGED <<nskipped, nfailed>>
              /\ outcome' = "no record"
           \/ \* the filter check raises: except Exception, continue
              /\ product # NoProduct /\ filtering /\ c.raises = "filter"
              /\ products' = products /\ pc' = OnError
              /\ nfailed' = nfailed + 1
              /\ UNCHANGED <<nskipped, nempty>>
              /\ outcome' = "error"
           \/ \* the store does not match the filter: continue
              /\ product # NoProduct /\ ~(filtering /\ c.raises = "filter")
              /\ FilterRejects(store_filter, product)
              /\ products' = products /\ pc' = "loop"
              /\ nskipped' = nskipped + 1
              /\ UNCHANGED <<nempty, nfailed>>
              /\ outcome' = "skipped"
           \/ \* the record is appended; enough records: break
              /\ product # NoProduct /\ ~(filtering /\ c.raises = "filter")
              /\ ~FilterRejects(store_filter, product)
              /\ products' = Append(products, product)
              /\ pc' = AfterAppend(Len(products) + 1)
              /\ UNCHANGED <<nskipped, nempty, nfailed>>
              /\ outcome' = "kept"
        /\ UNCHANGED <<max_results, store_filter, ncontainers>>
        /\ UNCHANGED <<locateVars, extractVars, appVars>>

\* The container under the loop variable is read when the loop reaches it.
Iterate == \E c \in Containers : IterateOn(c)

\* the for loop is exhausted: return products (line 140)
LoopEnd ==
    /\ pc = "loop"
    /\ idx >= Cap
    /\ pc' = "done"
    /\ UNCHANGED <<max_results, store_filter, ncontainers, idx, products,
                   nskipped, nempty, nfailed, outcome>>
    /\ UNCHANGED <<locateVars, extractVars, appVars>>

SearchNext == Fetch \/ Iterate \/ LoopEnd

SpecSearch == SearchInit /\ [][SearchNext]_vars

(***************************************************************************)
(* Properties of the search.                                               *)
(***************************************************************************)

\* C1: every record returned by search_products has a non-empty name and a
\* non-empty url (a container whose name buffer ends up empty is dropped).
C1_NameAndUrlNonEmpty ==
    \A i \in 1..Len(products) : products[i].name # "" /\ products[i].url # ""

\* C2: for max_results >= 1, whatever the filter and however many containers
\* were located, at most max_results records are collected.
C2_AtMostMaxResults ==
    max_results >= 1 => Len(products) <= max_results

\* the search returned max_results records although more containers were located
C2_Witness ==
    /\ pc = "done" /\ max_results >= 1
    /\ Len(products) = max_results /\ ncontainers > max_results

\* C3: with store_filter "tesco" every collected record has store "Tesco";
\* a record of another store is skipped and is not counted.
C3_TescoOnly ==
    store_filter = "tesco" =>
        /\ \A i \in 1..Len(products) : products[i].store = "Tesco"
        /\ Len(products) + nskipped + nempty + nfailed = idx

\* a filtered search that skipped a record and still returned max_results others
C3_Witness ==
    /\ pc = "done" /\ store_filter = "tesco"
    /\ nskipped >= 1 /\ max_results >= 1 /\ Len(products) = max_results

\* C6: an exception while one container is processed does not leave the loop:
\* the search raises only when the fetch failed, and it returns only when the
\* containers within the cap are exhausted or max_results records are
\* collected, every container gone over being kept, skipped or dropped.
C6_FailuresStayLocal ==
    /\ pc = "raised" => idx = 0 /\ nfailed = 0
    /\ pc = "done" => idx = Cap \/ Len(products) >= max_results
    /\ idx = Len(products) + nskipped + nempty + nfailed

\* a container raised, and a later container's record was still returned
C6_Witness ==
    /\ pc = "done" /\ nfailed >= 1 /\ outcome = "kept" /\ Len(products) >= 1

(***************************************************************************)
(* The container locator: _extract_products, lines 95-114.                 *)
(***************************************************************************)
MaxDivs == 3

selectors_to_try ==
    <<"div[data-id]", "div.product-item", "div[class*=\"product-item\"]",
      "div[class*=\"product\"]", "div._product", "div.product">>

Element(tag, class, hasDataId) ==
    [tag |-> tag, class |-> class, hasDataId |-> hasDataId]

\* the kinds of element a results page is made of
Elements ==
    { Element("div", <<"row">>, TRUE),
      Element("div", <<"product-item">>, FALSE),
      Element("div", <<"wide", "product-item-card">>, FALSE),
      Element("div", <<"product">>, FALSE),
      Element("div", <<"_product">>, FALSE),
      Element("div", <<"row">>, FALSE),
      Element("span", <<"product">>, TRUE) }

Documents == UNION {[1..n -> Elements] : n \in 0..MaxDivs}

\* soup.select(selector): the matching elements, in document order
RECURSIVE SelectFrom(_, _, _)
SelectFrom(doc, selector, k) ==
    IF k > Len(doc) THEN <<>>
    ELSE (IF SelectorMatches(selector, doc[k].tag, doc[k].class, doc[k].hasDataId)
              THEN <<k>> ELSE <<>>) \o SelectFrom(doc, selector, k + 1)

select(doc, selector) == SelectFrom(doc, selector, 1)

BreakNever(matches) == FALSE

\* lines 108-110: if product_containers: break
Break(matches) == matches # <<>>

LocateInit ==
    /\ soup \in Documents
    /\ sel = 1
    /\ tried = {}
    /\ product_containers = <<>>
    /\ lpc = "select"
    /\ SearchIdle /\ ExtractIdle /\ AppIdle

\* one iteration of  for selector in selectors_to_try  (lines 106-110)
TrySelector ==
    /\ lpc = "select"
    /\ LET matches == select(soup, selectors_to_try[sel])
       IN  /\ product_containers' = matches
           /\ tried' = tried \cup {sel}
           /\ \/ Break(matches) /\ lpc' = "located" /\ sel' = sel
              \/ ~Break(matches) /\ sel < Len(selectors_to_try)
                  /\ lpc' = "select" /\ sel' = sel + 1
              \/ ~Break(matches) /\ sel = Len(selectors_to_try)
                  /\ lpc' = "located" /\ sel' = sel
    /\ UNCHANGED <<soup, searchVars, extractVars, appVars>>

\* lines 112-114: no containers, return the empty products list
ReturnEmpty ==
    /\ lpc = "located"
    /\ product_containers = <<>>
    /\ lpc' = "returned"
    /\ UNCHANGED <<soup, sel, tried, product_containers, searchVars, extractVars, appVars>>

\* line 116: the loop over the located containers is entered
EnterLoop ==
    /\ lpc = "located"
    /\ product_containers # <<>>
    /\ lpc' = "loop"
    /\ UNCHANGED <<soup, sel, tried, product_containers, searchVars, extractVars, appVars>>

LocateNext == TrySelector \/ ReturnEmpty \/ EnterLoop

SpecLocate == LocateInit /\ [][LocateNext]_vars

\* the selectors that match something in the document
Matching == {k \in 1..Len(selectors_to_try) : select(soup, selectors_to_try[k]) # <<>>}

\* C5: the containers used are the matches of the first selector, in list
\* order, that matches anything, and no later selector is evaluated; when no
\* selector matches, the result is the empty list, returned without raising.
C5_FirstMatchingSelector ==
    lpc \in {"located", "loop", "returned"} =>
        IF Matching = {}
            THEN /\ product_containers = <<>>
                 /\ lpc # "loop"
            ELSE LET first == CHOOSE k \in Matching : \A j \in Matching : k <= j
                 IN  /\ product_containers = select(soup, selectors_to_try[first])
                     /\ tried = 1..first
                     /\ lpc # "returned"

\* the second selector was the first to match, and a later one matches other elements
C5_Witness ==
    /\ lpc = "loop" /\ sel = 2
    /\ select(soup, selectors_to_try[4]) # product_containers

(***************************************************************************)
(* _extract_product_info and _extract_store_name on one container.         *)
(***************************************************************************)
\* anchor texts: a size, a brand and name, trailing digits, a price and
\* what follows it, as the site concatenates them
SizeParts == {"", "800g", "1.5KG", "5lb"}

NameParts == {"HovisSeed Bread", "Coca Cola Zero", "7 Up", "Bread", ""}

TailParts == {"", "269", " 12 34"}

PriceParts == {"", "$1.95$0.24 per 100g", " $2.5", "$3"}

AnchorTexts ==
    {a \o b \o c \o d : a \in SizeParts, b \in NameParts, c \in TailParts,
                        d \in PriceParts}

\* what a container holds besides its anchor: the signals of the six methods
StoreSignals ==
    { <<>>,
      <<TextNode("Tesco")>>,
      <<TextNode("Sainsbury's, cheaper than TESCO")>>,
      <<TextNode("mark spencer")>>,
      <<TextNode("Marks & Spencer")>>,
      <<TextNode("by marks")>>,
      <<Span("store", " Ocado ")>>,
      <<Span("shop", " "), Span("retailer", "spar")>>,
      <<Img("Tesco logo")>>,
      <<Node("img", <<>>, "", FALSE, "", FALSE, "")>>,
      <<Span("sale-price", "now $4.20"), TextNode("Co-op")>>,
      <<Span("price", "n/a"), Span("cost", "$5.00")>> }

HrefInputs == {"/p/1", "https://www.trolley.co.uk/go/asda/1", ""}

AttrInputs == {<<>>, << <<"data-id", "77">>, <<"data-store", "lidl">> >>}

ExtractInputs ==
    {Container(<<>>, <<Anchor(t, "/p/1")>> \o sig, "none", 0) :
         t \in AnchorTexts, sig \in StoreSignals}
    \cup {Container(at, <<Anchor("2lCoca Cola Zero$2.50", h)>> \o sig, "none", k) :
              at \in AttrInputs, h \in HrefInputs, sig \in StoreSignals, k \in 0..6}
    \cup {Container(<<>>, <<Anchor("2lCoca Cola Zero$2.50", "/p/1")>> \o sig, "info", 0) :
              sig \in StoreSignals}
    \cup {Container(<<>>, sig, "none", 0) : sig \in StoreSignals}
    \cup {Container(<<>>, <<Node("a", <<>>, "Bread", FALSE, "", FALSE, "")>>, "none", 0),
          Container(<<>>, <<Anchor("  ", "/p/1"), TextNode("Tesco")>>, "none", 0)}

ExtractInit ==
    /\ container \in ExtractInputs
    /\ name = "" /\ price = "" /\ size = "" /\ brand = "" /\ store = "" /\ url = ""
    /\ epc = "link"
    /\ SearchIdle /\ LocateIdle /\ AppIdle

\* lines 146-155: the anchor and its text; None without them, and None
\* (lines 223-225) when the try block raises
FindLink ==
    /\ epc = "link"
    /\ LET link_element == find_link(container)
       IN  \/ /\ container.raises = "info" \/ link_element = 0
              /\ epc' = "none" /\ name' = name
           \/ /\ container.raises # "info" /\ link_element # 0
              /\ name' = get_text_strip(container.children[link_element])
              /\ epc' = IF name' = "" THEN "none" ELSE "price"
    /\ UNCHANGED <<container, price, size, brand, store, url, searchVars, locateVars, appVars>>

\* lines 162-179
ExtractPrice ==
    /\ epc = "price"
    /\ name' = PriceInName(name).name
    /\ price' = IF PriceInName(name).price = PriceNotAvailable
                    THEN PriceFromElements(container, 1)
                    ELSE PriceInName(name).price
    /\ epc' = "size"
    /\ UNCHANGED <<container, size, brand, store, url, searchVars, locateVars, appVars>>

\* lines 182-186
ExtractSize ==
    /\ epc = "size"
    /\ size' = SizeInName(name).size
    /\ name' = SizeInName(name).name
    /\ epc' = "brand"
    /\ UNCHANGED <<container, price, brand, store, url, searchVars, locateVars, appVars>>

\* lines 189-201
ExtractBrand ==
    /\ epc = "brand"
    /\ brand' = BrandInName(name).brand
    /\ name' = BrandInName(name).name
    /\ epc' = "clean"
    /\ UNCHANGED <<container, price, size, store, url, searchVars, locateVars, appVars>>

\* lines 204-206
CleanUp ==
    /\ epc = "clean"
    /\ name' = CleanName(name)
    /\ epc' = "store"
    /\ UNCHANGED <<container, price, size, brand, store, url, searchVars, locateVars, appVars>>

\* line 209
ExtractStore ==
    /\ epc = "store"
    /\ store' = _extract_store_name(container)
    /\ epc' = "url"
    /\ UNCHANGED <<container, name, price, size, brand, url, searchVars, locateVars, appVars>>

\* lines 212-221
Return ==
    /\ epc = "url"
    /\ url' = urljoin(base_url, container.children[find_link(container)].href)
    /\ epc' = "returned"
    /\ UNCHANGED <<container, name, price, size, brand, store, searchVars, locateVars, appVars>>

ExtractNext ==
    FindLink \/ ExtractPrice \/ ExtractSize \/ ExtractBrand \/ CleanUp
        \/ ExtractStore \/ Return

SpecExtract == ExtractInit /\ [][ExtractNext]_vars

\* no method finds a retailer in the container
NoSignal(c) == \A k \in 1..6 : Method(k, c) = None

\* a method raises before any method has returned
RaisesFirst(c) ==
    /\ c.storeRaiseAt \in 1..6
    /\ \A k \in 1..(c.storeRaiseAt - 1) : Method(k, c) = None

\* C4: _extract_store_name returns a non-empty string for every container, and
\* exactly "Trolley.co.uk" when no method finds a retailer or a method raises.
C4_StoreNeverEmpty ==
    epc \in {"url", "returned"} =>
        /\ store # "" /\ store # None
        /\ NoSignal(container) \/ RaisesFirst(container) => store = "Trolley.co.uk"

\* the resolver fell back on a container in which a method raised
C4_Witness ==
    /\ epc = "returned" /\ store = "Trolley.co.uk"
    /\ RaisesFirst(container) /\ ~NoSignal(container)

\* the steps after the price step, in which the price field is set
PriceSet == {"size", "brand", "clean", "store", "url", "returned"}

\* the pound sign, one or more digits, a point and exactly two digits
TwoDecimalPrice(p) ==
    LET d == Run(Digits, p, 2)
    IN  /\ Ch(p, 1) = Pound
        /\ d >= 1
        /\ Ch(p, 2 + d) = "."
        /\ Len(p) = d + 4
        /\ Ch(p, d + 3) \in Digits /\ Ch(p, d + 4) \in Digits

\* C11: the price field of every record is the sentinel "Price not available"
\* or the pound sign, one or more digits, a point and exactly two digits.
C11_PriceTwoDecimals ==
    epc \in PriceSet => price = PriceNotAvailable \/ TwoDecimalPrice(price)

\* the canonical display names: the values of store_mappings
CanonicalStores == {store_mappings[k][2] : k \in 1..Len(store_mappings)}

\* C12: the store field of every record is a value of store_mappings or the
\* fallback "Trolley.co.uk", whichever of the six methods found the retailer.
C12_StoreCanonical ==
    epc \in {"url", "returned"} => store \in CanonicalStores \cup {Fallback}

\* the steps after the cleanup, in which the name is final
NameFinal == {"store", "url", "returned"}

\* C13: after the cleanup the name neither starts nor ends with a digit, has
\* no whitespace at its ends and no run of whitespace longer than one space.
C13_NameClean ==
    epc \in NameFinal =>
        /\ Ch(name, 1) \notin Digits /\ Ch(name, Len(name)) \notin Digits
        /\ Ch(name, 1) \notin WhiteSpace /\ Ch(name, Len(name)) \notin WhiteSpace
        /\ \A i \in 1..Len(name) :
               Ch(name, i) \in WhiteSpace =>
                   Ch(name, i) = " " /\ Ch(name, i + 1) \notin WhiteSpace

(***************************************************************************)
(* app.py: the cache (lines 38-69).                                        *)
(***************************************************************************)
CACHE_DURATION == 3600

MaxHours == 2

\* the steps time.time() advances by between two calls
TickSteps == {CACHE_DURATION \div 2 - 1, CACHE_DURATION \div 2}

\* hashlib.md5(f"{query.lower()}_{max_results}").hexdigest(): the digest is
\* taken to be injective, so the key is the pair that is hashed
get_cache_key(query, n) == <<Lower(query), n>>

is_cache_validInclusive(timestamp) == now - timestamp <= CACHE_DURATION

is_cache_valid(timestamp) == now - timestamp < CACHE_DURATION

NoData == [none |-> TRUE]

\* get_cached_result(cache_key): the value returned
CachedResult(key) ==
    IF key \in DOMAIN cache /\ is_cache_valid(cache[key].timestamp)
        THEN cache[key].data
        ELSE NoData

\* get_cached_result(cache_key): the cache it leaves (an expired entry is deleted)
CacheAfterGet(key) ==
    IF key \in DOMAIN cache /\ ~is_cache_valid(cache[key].timestamp)
        THEN [k \in DOMAIN cache \ {key} |-> cache[k]]
        ELSE cache

\* set_cache(cache_key, data) applied to the cache c
CacheWith(c, key, data) ==
    [k \in DOMAIN c \cup {key} |->
        IF k = key THEN [data |-> data, timestamp |-> now] ELSE c[k]]

\* the ghost record of a call of get_cached_result
GetGhost(key) ==
    /\ ret' = CachedResult(key)
    /\ lookup' = [key |-> key, found |-> key \in DOMAIN cache,
                  ts |-> IF key \in DOMAIN cache THEN cache[key].timestamp ELSE 0]

\* scraper.search_products(query, n) when it returns: the products of that call
Products(query, n) == [of |-> query, n |-> n]

\* time passes
Tick ==
    /\ \E d \in TickSteps : now + d <= MaxHours * CACHE_DURATION /\ now' = now + d
    /\ last' = "tick"
    /\ UNCHANGED <<cache, th, nreq, ret, lookup>>
    /\ UNCHANGED <<searchVars, locateVars, extractVars>>

(***************************************************************************)
(* The cache functions called one after the other.                         *)
(***************************************************************************)
CacheQueries == {"milk", "Milk", "eggs"}

CacheKeys == {get_cache_key(q, 3) : q \in CacheQueries}

CacheData == {[query |-> q, results |-> Products(q, 3)] : q \in CacheQueries}

CacheInit ==
    /\ cache = <<>> /\ now = 0 /\ th = <<>> /\ nreq = 0
    /\ ret = NoData /\ lookup = [key |-> <<"", 0>>, found |-> FALSE, ts |-> 0]
    /\ last = "init"
    /\ SearchIdle /\ LocateIdle /\ ExtractIdle

CallSetCache ==
    /\ \E data \in CacheData :
          cache' = CacheWith(cache, get_cache_key(data.query, 3), data)
    /\ last' = "set_cache"
    /\ UNCHANGED <<now, th, nreq, ret, lookup>>
    /\ UNCHANGED <<searchVars, locateVars, extractVars>>

CallGetCachedResult ==
    /\ \E key \in CacheKeys :
          /\ GetGhost(key)
          /\ cache' = CacheAfterGet(key)
    /\ last' = "get_cached_result"
    /\ UNCHANGED <<now, th, nreq>>
    /\ UNCHANGED <<searchVars, locateVars, extractVars>>

\* clear_cache, lines 268-278
CallClearCache ==
    /\ cache' = <<>>
    /\ last' = "clear_cache"
    /\ UNCHANGED <<now, th, nreq, ret, lookup>>
    /\ UNCHANGED <<searchVars, locateVars, extractVars>>

CacheNext == CallSetCache \/ CallGetCachedResult \/ CallClearCache \/ Tick

SpecCache == CacheInit /\ [][CacheNext]_vars

\* C7: get_cached_result never returns data as old as CACHE_DURATION; on an
\* entry that old it returns None, and the entry is no longer in the cache.
C7_NeverStale ==
    last = "get_cached_result" =>
        /\ ret # NoData => lookup.found /\ now - lookup.ts < CACHE_DURATION
        /\ lookup.found /\ now - lookup.ts >= CACHE_DURATION =>
              ret = NoData /\ lookup.key \notin DOMAIN cache

\* an entry exactly CACHE_DURATION old was looked up, and was evicted
C7_Witness ==
    /\ last = "get_cached_result" /\ lookup.found
    /\ now - lookup.ts = CACHE_DURATION
    /\ ret = NoData /\ lookup.key \notin DOMAIN cache

(***************************************************************************)
(* app.py: the request handlers, run by the server's worker threads.  A    *)
(* handler's step is what it does up to its next call of the scraper; the  *)
(* threads interleave between the steps.  The requests here are served     *)
(* within the lifetime of a cache entry; its expiry is SpecCache's.        *)
(***************************************************************************)
Threads == {"t1", "t2"}

MaxRequests == 2

PRICE_MAX_RESULTS == 20

BATCH_MAX_RESULTS == 10

BATCH_MAX_QUERIES == 5

IntArg(n) == [int |-> TRUE, v |-> n]

\* a max_results that int() rejects
BadArg == [int |-> FALSE, v |-> 0]

MaxResultsArgs == {IntArg(n) : n \in {0 - 1, 0, 3, 25}} \cup {BadArg}

PriceQueryInputs == {"", "a", "milk", " Milk "}

\* an item of the 'queries' list that is no string: the JSON number 42
NotAString == "<42>"

Repeat(query, n) == [k \in 1..n |-> query]

\* the 'queries' lists of the batch requests: empty, with a query that is too
\* short, with an item that is no string, of the greatest length allowed (an
\* empty and an unstripped query among them), and longer
BatchLists ==
    {<<>>,
     <<"a ", "milk">>,
     <<"a ", NotAString, "milk">>,
     <<"milk", "a ", " Milk", "">> \o Repeat("milk", BATCH_MAX_QUERIES - 4),
     Repeat("milk", BATCH_MAX_QUERIES + 1)}

\* the JSON body of a batch request: without 'queries', with queries that is
\* no list, or with a list of queries
BatchBodies ==
    {[kind |-> k, queries |-> <<>>, arg |-> IntArg(3)] :
         k \in {"missing", "not a list"}}
    \cup {[kind |-> "list", queries |-> l, arg |-> a] :
              l \in BatchLists, a \in MaxResultsArgs}

Min(a, b) == IF a < b THEN a ELSE b

IdleThread ==
    [pc |-> "idle", handler |-> "none", query |-> "", max_results |-> 0,
     queries |-> <<>>, i |-> 0, results |-> <<>>, resp |-> [status |-> 0]]

Ok(body) == [status |-> 200, body |-> body]

Error(status, error) == [status |-> status, error |-> error]

TooShort == "Query must be at least 2 characters long"

\* results[query] = value
DictWith(dict, key, value) ==
    [k \in DOMAIN dict \cup {key} |-> IF k = key THEN value ELSE dict[k]]

AppInit ==
    /\ cache = <<>> /\ now = 0 /\ nreq = 0
    /\ th = [t \in Threads |-> IdleThread]
    /\ ret = NoData /\ lookup = [key |-> <<"", 0>>, found |-> FALSE, ts |-> 0]
    /\ last = "init"
    /\ SearchIdle /\ LocateIdle /\ ExtractIdle

\* the handler returns: its locals are gone, the response is sent; handler,
\* queries and the query of /api/price stay to tell which request the
\* response answers
Respond(t, me, resp) ==
    th' = [th EXCEPT ![t] = [IdleThread EXCEPT !.resp = resp,
                                               !.handler = me.handler,
                                               !.query = IF me.handler = "price"
                                                            THEN me.query ELSE "",
                                               !.queries = me.queries]]

\* the body of the 500 response: error and message = str(e)
Failure(error, message) == [status |-> 500, error |-> error, message |-> message]

BatchFailed == "Failed to process batch request"

\* get_prices, lines 104-128: the parameters, the validation, the cache
PriceRequest(t, raw, arg) ==
    LET query == Strip(raw)
        n == Min(arg.v, PRICE_MAX_RESULTS)
        key == get_cache_key(query, n)
        me == [IdleThread EXCEPT !.handler = "price", !.query = query,
                                 !.max_results = n]
    IN  /\ th[t].pc = "idle"
        /\ nreq < MaxRequests
        /\ nreq' = nreq + 1
        /\ \/ \* int() raises ValueError (lines 155-160)
              /\ ~arg.int
              /\ Respond(t, me, Error(400, "Invalid parameter value"))
              /\ UNCHANGED <<cache, ret, lookup>>
           \/ /\ arg.int /\ query = ""
              /\ Respond(t, me, Error(400, "Missing required parameter 'query'"))
              /\ UNCHANGED <<cache, ret, lookup>>
           \/ /\ arg.int /\ query # "" /\ Len(query) < 2
              /\ Respond(t, me, Error(400, TooShort))
              /\ UNCHANGED <<cache, ret, lookup>>
           \/ \* the cached result is returned
              /\ arg.int /\ Len(query) >= 2
              /\ CachedResult(key) # NoData
              /\ GetGhost(key) /\ cache' = CacheAfterGet(key)
              /\ Respond(t, me, Ok(CachedResult(key)))
           \/ \* no valid entry: scraper.search_products is called (line 132)
              /\ arg.int /\ Len(query) >= 2
              /\ CachedResult(key) = NoData
              /\ GetGhost(key) /\ cache' = CacheAfterGet(key)
              /\ th' = [th EXCEPT ![t] = [me EXCEPT !.pc = "p_scrape"]]
        /\ UNCHANGED <<now, last>>
        /\ UNCHANGED <<searchVars, locateVars, extractVars>>

\* get_prices, lines 132-168: the scraper returns or raises
PriceScraped(t) ==
    LET me == th[t]
        response_data == [query |-> me.query,
                          results |-> Products(me.query, me.max_results),
                          max_results |-> me.max_results]
    IN  /\ me.pc = "p_scrape"
        /\ \/ /\ cache' = CacheWith(cache, get_cache_key(me.query, me.max_results),
                                    response_data)
              /\ Respond(t, me, Ok(response_data))
           \/ /\ Respond(t, me, Failure("Failed to fetch product data",
                                      "Failed to fetch search results"))
              /\ cache' = cache
        /\ UNCHANGED <<now, nreq, ret, lookup, last>>
        /\ UNCHANGED <<searchVars, locateVars, extractVars>>

\* batch_prices, lines 182-205: the body and its validation
BatchRequest(t, body) ==
    LET n == Min(body.arg.v, BATCH_MAX_RESULTS)
        me == [IdleThread EXCEPT !.handler = "batch", !.max_results = n,
                                 !.queries = body.queries]
    IN  /\ th[t].pc = "idle"
        /\ nreq < MaxRequests
        /\ nreq' = nreq + 1
        /\ \/ /\ body.kind = "missing"
              /\ Respond(t, me, Error(400, "Missing 'queries' in request body"))
           \/ \* int() raises: the outer except (lines 261-266)
              /\ body.kind # "missing" /\ ~body.arg.int
              /\ Respond(t, me, Failure(BatchFailed, "invalid literal for int()"))
           \/ /\ body.arg.int
              /\ body.kind = "not a list" \/ body.queries = <<>>
              /\ Respond(t, me, Error(400, "'queries' must be a non-empty list"))
           \/ /\ body.arg.int /\ body.kind = "list"
              /\ Len(body.queries) > BATCH_MAX_QUERIES
              /\ Respond(t, me, Error(400, "Maximum 5 queries allowed per batch request"))
           \/ /\ body.arg.int /\ body.kind = "list"
              /\ body.queries # <<>> /\ Len(body.queries) <= BATCH_MAX_QUERIES
              /\ th' = [th EXCEPT ![t] = [me EXCEPT !.pc = "b_loop"]]
        /\ UNCHANGED <<cache, now, ret, lookup, last>>
        /\ UNCHANGED <<searchVars, locateVars, extractVars>>

\* batch_prices, lines 207-224: the next query of the list
BatchQuery(t) ==
    LET me == th[t]
        query == me.queries[me.i + 1]
        key == get_cache_key(Strip(query), me.max_results)
    IN  /\ me.pc = "b_loop"
        /\ me.i < Len(me.queries)
        /\ \/ \* line 208: query.strip() of a number raises AttributeError, which
              \* only the outer except catches (lines 261-266)
              /\ query = NotAString
              /\ Respond(t, me, Failure(BatchFailed,
                                        "'int' object has no attribute 'strip'"))
              /\ UNCHANGED <<cache, ret, lookup>>
           \/ \* lines 208-212: the error marker
              /\ query # NotAString
              /\ query = "" \/ Len(Strip(query)) < 2
              /\ th' = [th EXCEPT ![t] = [me EXCEPT !.i = @ + 1, !.query = query,
                          !.results = DictWith(@, query, [error |-> TooShort])]]
              /\ UNCHANGED <<cache, ret, lookup>>
           \/ /\ query # NotAString /\ Len(Strip(query)) >= 2
              /\ CachedResult(key) # NoData
              /\ GetGhost(key) /\ cache' = CacheAfterGet(key)
              /\ th' = [th EXCEPT ![t] = [me EXCEPT !.i = @ + 1, !.query = query,
                          !.results = DictWith(@, query, CachedResult(key))]]
           \/ \* scraper.search_products is called (line 224)
              /\ query # NotAString /\ Len(Strip(query)) >= 2
              /\ CachedResult(key) = NoData
              /\ GetGhost(key) /\ cache' = CacheAfterGet(key)
              /\ th' = [th EXCEPT ![t] = [me EXCEPT !.pc = "b_scrape", !.query = query]]
        /\ UNCHANGED <<now, nreq, last>>
        /\ UNCHANGED <<searchVars, locateVars, extractVars>>

\* batch_prices, lines 224-249: the scraper returns or raises
BatchScraped(t) ==
    LET me == th[t]
        query_result == [query |-> me.query,
                         results |-> Products(Strip(me.query), me.max_results)]
    IN  /\ me.pc = "b_scrape"
        /\ \/ /\ cache' = CacheWith(cache,
                              get_cache_key(Strip(me.query), me.max_results),
                              query_result)
              /\ th' = [th EXCEPT ![t] = [me EXCEPT !.pc = "b_loop", !.i = @ + 1,
                          !.results = DictWith(@, me.query, query_result)]]
           \/ /\ cache' = cache
              /\ th' = [th EXCEPT ![t] = [me EXCEPT !.pc = "b_loop", !.i = @ + 1,
                          !.results = DictWith(@, me.query,
                                               [error |-> "Failed to fetch search results"])]]
        /\ UNCHANGED <<now, nreq, ret, lookup, last>>
        /\ UNCHANGED <<searchVars, locateVars, extractVars>>

\* batch_prices, lines 251-259
BatchRespond(t) ==
    /\ th[t].pc = "b_loop"
    /\ th[t].i = Len(th[t].queries)
    /\ Respond(t, th[t], Ok([batch_results |-> th[t].results,
                      total_queries |-> Len(th[t].queries)]))
    /\ UNCHANGED <<cache, now, nreq, ret, lookup, last>>
    /\ UNCHANGED <<searchVars, locateVars, extractVars>>

\* clear_cache, lines 268-278
ClearRequest(t) ==
    /\ th[t].pc = "idle"
    /\ nreq < MaxRequests
    /\ nreq' = nreq + 1
    /\ cache' = <<>>
    /\ Respond(t, [IdleThread EXCEPT !.handler = "clear"],
               Ok([message |-> "Cache cleared"]))
    /\ UNCHANGED <<now, ret, lookup, last>>
    /\ UNCHANGED <<searchVars, locateVars, extractVars>>

AppNext ==
    \/ \E t \in Threads, raw \in PriceQueryInputs, arg \in MaxResultsArgs :
           PriceRequest(t, raw, arg)
    \/ \E t \in Threads : PriceScraped(t)
    \/ \E t \in Threads, body \in BatchBodies : BatchRequest(t, body)
    \/ \E t \in Threads : BatchQuery(t)
    \/ \E t \in Threads : BatchScraped(t)
    \/ \E t \in Threads : BatchRespond(t)
    \/ \E t \in Threads : ClearRequest(t)

SpecApp == AppInit /\ [][AppNext]_vars

\* the cache key a thread is fetching for while it is inside
\* scraper.search_products
Fetching(t) == th[t].pc \in {"p_scrape", "b_scrape"}

KeyOf(t) == get_cache_key(Strip(th[t].query), th[t].max_results)

\* C8: requests for the same cache key running concurrently without a valid
\* cache entry are serialized per key: scraper.search_products is never in
\* progress for the same key in two requests at once (single-flight).
C8_SingleFlight ==
    \A t1 \in Threads, t2 \in Threads :
        t1 # t2 /\ Fetching(t1) /\ Fetching(t2) => KeyOf(t1) # KeyOf(t2)

\* shorter than 2 characters after stripping
Short(query) == query # NotAString /\ Len(Strip(query)) < 2

\* the response rejects max_results_per_query, not a query
RejectsArg(resp) == resp.status = 500 /\ resp.message = "invalid literal for int()"

\* the entry of batch_results is the result of a search for this query, fresh
\* or from the cache, or the marker of its failed search
OwnResult(r, query) ==
    \/ r = [error |-> "Failed to fetch search results"]
    \/ /\ "results" \in DOMAIN r
       /\ query # NotAString
       /\ Lower(r.results.of) = Lower(Strip(query))

\* C9: the response to a batch of 1 to 5 queries, one of them shorter than 2
\* characters after stripping, is a success envelope in which that query has
\* the error marker and every other query its own result; the scraper is not
\* called for the short query, and no query makes the whole batch an error
\* response.
C9_BatchIsolatesQueries ==
    \A t \in Threads :
        LET me == th[t]
            K == Len(me.queries)
        IN  /\ me.pc = "b_scrape" => ~Short(me.query)
            /\ (/\ me.pc = "idle" /\ me.handler = "batch" /\ me.resp.status # 0
                /\ K >= 1 /\ K <= BATCH_MAX_QUERIES
                /\ \E k \in 1..K : Short(me.queries[k])
                /\ ~RejectsArg(me.resp))
               => /\ me.resp.status = 200
                  /\ \A k \in 1..K :
                        LET query == me.queries[k]
                            r == me.resp.body.batch_results[query]
                        IN  IF Short(query) THEN r = [error |-> TooShort]
                                            ELSE OwnResult(r, query)

\* C10: scraper.search_products is never called from /api/price with
\* max_results outside 1..20, nor from /api/batch with max_results outside
\* 1..10 or for a batch of more than 5 queries.
C10_BoundsEnforced ==
    \A t \in Threads :
        /\ th[t].pc = "p_scrape" =>
               th[t].max_results >= 1 /\ th[t].max_results <= PRICE_MAX_RESULTS
        /\ th[t].pc = "b_scrape" =>
               /\ th[t].max_results >= 1 /\ th[t].max_results <= BATCH_MAX_RESULTS
               /\ Len(th[t].queries) <= BATCH_MAX_QUERIES

\* C14: the query field of a successful /api/price response is the stripped
\* query of the request it answers, freshly scraped or served from the cache.
C14_QueryEchoed ==
    \A t \in Threads :
        th[t].pc = "idle" /\ th[t].handler = "price" /\ th[t].resp.status = 200
            => th[t].resp.body.query = th[t].query

=============================================================================
